---- MODULE Spec2Model ----
(***************************************************************************)
(* A model of the tileset resolution code of rs-tiled (src/tileset.rs):    *)
(* attribute validation, the embedded-versus-reference dispatch of         *)
(* parse_xml_in_map, the child-element loop of finish_parsing_xml, the     *)
(* default filling of spritesheet tilesets, the derivation of columns and  *)
(* the two queries get_tile and tiles.                                     *)
(*                                                                         *)
(* Strings are sequences of one-character strings, so that parsing is a    *)
(* computation.  Option values are <<>> (None) and <<x>> (Some(x)).        *)
(* TLC's integers are 32-bit signed: u32 arithmetic that may wrap is done  *)
(* on pairs of 16-bit limbs, and the attribute strings the model draws     *)
(* stay below 2^31.                                                        *)
(***************************************************************************)
EXTENDS Integers, Sequences, FiniteSets, TLC

\* ---------------------------------------------------------------- bounds

\* The largest number of child elements the parser yields before the
\* closing tag of the tileset.
MaxChildren == 3

\* Tile declarations carry an id in 0..MaxTileId.
MaxTileId == 2

\* ------------------------------------------------------- Option and Result

None == <<>>

Some(x) == <<x>>

IsSome(o) == Len(o) = 1

IsNone(o) == Len(o) = 0

Unwrap(o) == o[1]

UnwrapOr(o, d) == IF IsSome(o) THEN o[1] ELSE d

Ok(v) == [ok |-> TRUE, val |-> v]

Err(e) == [ok |-> FALSE, err |-> e]

\* A panic unwinds through every caller: no Result is returned.
Panic(m) == [ok |-> FALSE, panic |-> m]

IsOk(r) == r.ok

IsPanic(r) == (~r.ok) /\ ("panic" \in DOMAIN r)

IsErr(r) == (~r.ok) /\ ("err" \in DOMAIN r)

\* ------------------------------------------------------------- error kinds

MalformedAttributes(msg) == [kind |-> "MalformedAttributes", msg |-> msg]

PathIsNotFile == [kind |-> "PathIsNotFile", msg |-> ""]

EmbeddedAttrsMsg == "tileset must have a firstgid, tilecount, tilewidth, and tileheight with correct types"

ReferenceAttrsMsg == "Tileset reference must have a firstgid and source with correct types"

ExternalAttrsMsg == "tileset must have a name, tile width and height with correct types"

NoColumnsMsg == "No <image> nor columns attribute in <tileset>"

IsMalformedAttributes(e) == e.kind = "MalformedAttributes"

\* ------------------------------------------------- str::parse::<u32>()

Digits == <<"0", "1", "2", "3", "4", "5", "6", "7", "8", "9">>

IsDigit(c) == \E i \in 1..10 : Digits[i] = c

DigitVal(c) == (CHOOSE i \in 1..10 : Digits[i] = c) - 1

\* The digits of s from position i on, accumulated into acc; None on a
\* character that is no digit and on a value above u32::MAX = 4294967295.
RECURSIVE ParseDigits(_, _, _)
ParseDigits(s, i, acc) ==
    IF i > Len(s) THEN Some(acc)
    ELSE IF ~IsDigit(s[i]) THEN None
    ELSE IF acc > 429496729 \/ (acc = 429496729 /\ DigitVal(s[i]) > 5) THEN None
    ELSE ParseDigits(s, i + 1, acc * 10 + DigitVal(s[i]))

\* v.parse().ok() at type u32: an optional leading "+", then at least one
\* digit; a leading "-" is no digit of an unsigned type.
ParseU32(s) ==
    IF Len(s) = 0 THEN None
    ELSE IF s[1] \in {"+", "-"} /\ Len(s) = 1 THEN None
    ELSE IF s[1] = "+" THEN ParseDigits(s, 2, 0)
    ELSE ParseDigits(s, 1, 0)

\* The coercion of the name and source attributes: Some.
ParseString(s) == Some(s)

\* ---------------------------------------------------------------- paths

\* A path is whether it starts at the root, and its components.
MkPath(absolute, components) == [absolute |-> absolute, components |-> components]

\* The component cur that ends before position i, as Path::components
\* yields it: an empty component is dropped, and so is a "." that is not
\* the very start of the path.
PathComponent(i, cur) ==
    IF Len(cur) = 0 THEN <<>>
    ELSE IF cur = <<".">> /\ i - Len(cur) > 1 THEN <<>>
    ELSE <<cur>>

\* Path::components of the characters of s from position i on, cur being
\* the component under construction.
RECURSIVE SplitPath(_, _, _)
SplitPath(s, i, cur) ==
    IF i > Len(s) THEN PathComponent(i, cur)
    ELSE IF s[i] = "/"
         THEN PathComponent(i, cur) \o SplitPath(s, i + 1, <<>>)
         ELSE SplitPath(s, i + 1, Append(cur, s[i]))

\* Path::new(s)
PathFromString(s) == MkPath(Len(s) > 0 /\ s[1] = "/", SplitPath(s, 1, <<>>))

\* Path::parent: None for the root and for the empty path.
Parent(p) ==
    IF Len(p.components) = 0 THEN None
    ELSE Some(MkPath(p.absolute, SubSeq(p.components, 1, Len(p.components) - 1)))

\* Path::join: an absolute argument replaces the receiver; a leading "." of
\* a relative argument is no longer the start of the path, and is dropped,
\* unless the receiver is the empty path.
Join(p, q) ==
    IF q.absolute THEN q
    ELSE IF /\ Len(q.components) > 0 /\ q.components[1] = <<".">>
            /\ (p.absolute \/ Len(p.components) > 0)
    THEN MkPath(p.absolute, p.components \o SubSeq(q.components, 2, Len(q.components)))
    ELSE MkPath(p.absolute, p.components \o q.components)

\* ------------------------------------------------------- u32 arithmetic

Limb == 65536

\* A u32 as <<high limb, low limb>>.
ToU32(n) == <<n \div Limb, n % Limb>>

FromU32(x) == x[1] * Limb + x[2]

U32Geq(x, y) == x[1] > y[1] \/ (x[1] = y[1] /\ x[2] >= y[2])

\* x - y on limbs, for x >= y (the high limb is not reduced).
LimbSub(x, y) ==
    LET borrow == IF x[2] < y[2] THEN 1 ELSE 0
    IN  <<x[1] - y[1] - borrow, (x[2] - y[2]) % Limb>>

\* u32 subtraction: the wrapped difference and whether it overflowed.
U32Sub(x, y) ==
    LET borrow == IF x[2] < y[2] THEN 1 ELSE 0
        hi     == x[1] - y[1] - borrow
    IN  [val |-> <<hi % Limb, (x[2] - y[2]) % Limb>>, overflow |-> hi < 0]

\* u32 addition: the wrapped sum and whether it overflowed.
U32Add(x, y) ==
    LET lo == x[2] + y[2]
        hi == x[1] + y[1] + (lo \div Limb)
    IN  [val |-> <<hi % Limb, lo % Limb>>, overflow |-> hi >= Limb]

Pow2(k) == 2 ^ k

U32Bit(x, i) ==
    IF i >= 16 THEN (x[1] \div Pow2(i - 16)) % 2 ELSE (x[2] \div Pow2(i)) % 2

U32SetBit(x, i) ==
    IF i >= 16 THEN <<x[1] + Pow2(i - 16), x[2]>> ELSE <<x[1], x[2] + Pow2(i)>>

\* Shift-subtract division of x by y (y > 0), from bit i down to bit 0.
RECURSIVE DivStep(_, _, _, _, _)
DivStep(i, x, y, rem, quot) ==
    IF i < 0 THEN quot
    ELSE LET lo      == 2 * rem[2] + U32Bit(x, i)
             shifted == <<2 * rem[1] + (lo \div Limb), lo % Limb>>
         IN  IF U32Geq(shifted, y)
             THEN DivStep(i - 1, x, y, LimbSub(shifted, y), U32SetBit(quot, i))
             ELSE DivStep(i - 1, x, y, shifted, quot)

\* u32 division, truncating.
U32Div(x, y) == DivStep(31, x, y, <<0, 0>>, <<0, 0>>)

\* ------------------------------------------------------------ attributes

\* get_attrs!: the value of the attribute called name, coerced as a u32;
\* None when the attribute is absent or its value does not parse.
AttrU32(attrs, name) ==
    IF IsSome(attrs[name]) THEN ParseU32(Unwrap(attrs[name])) ELSE None

\* get_attrs!: the value of the attribute called name, coerced by Some.
AttrString(attrs, name) ==
    IF IsSome(attrs[name]) THEN ParseString(Unwrap(attrs[name])) ELSE None

\* The attribute validation of parse_xml_embedded failing also on an
\* optional numeric attribute that is present and does not parse.
EmbeddedAttrs_StrictOptionals(attrs) ==
    LET spacing     == AttrU32(attrs, "spacing")
        margin      == AttrU32(attrs, "margin")
        columns     == AttrU32(attrs, "columns")
        name        == AttrString(attrs, "name")
        tilecount   == AttrU32(attrs, "tilecount")
        first_gid   == AttrU32(attrs, "firstgid")
        tile_width  == AttrU32(attrs, "tilewidth")
        tile_height == AttrU32(attrs, "tileheight")
        strict(n, v) == IsSome(attrs[n]) => IsSome(v)
    IN  IF /\ IsSome(tilecount) /\ IsSome(first_gid) /\ IsSome(tile_width)
           /\ IsSome(tile_height) /\ strict("spacing", spacing)
           /\ strict("margin", margin) /\ strict("columns", columns)
        THEN Ok([spacing |-> spacing, margin |-> margin, columns |-> columns,
                 name |-> name, tilecount |-> Unwrap(tilecount),
                 first_gid |-> Unwrap(first_gid), tile_width |-> Unwrap(tile_width),
                 tile_height |-> Unwrap(tile_height)])
        ELSE Err(MalformedAttributes(EmbeddedAttrsMsg))

\* The get_attrs! call of parse_xml_embedded: four optional and four
\* required attributes; one error for the whole set.
EmbeddedAttrs(attrs) ==
    LET spacing     == AttrU32(attrs, "spacing")
        margin      == AttrU32(attrs, "margin")
        columns     == AttrU32(attrs, "columns")
        name        == AttrString(attrs, "name")
        tilecount   == AttrU32(attrs, "tilecount")
        first_gid   == AttrU32(attrs, "firstgid")
        tile_width  == AttrU32(attrs, "tilewidth")
        tile_height == AttrU32(attrs, "tileheight")
    IN  IF IsSome(tilecount) /\ IsSome(first_gid) /\ IsSome(tile_width) /\ IsSome(tile_height)
        THEN Ok([spacing |-> spacing, margin |-> margin, columns |-> columns,
                 name |-> name, tilecount |-> Unwrap(tilecount),
                 first_gid |-> Unwrap(first_gid), tile_width |-> Unwrap(tile_width),
                 tile_height |-> Unwrap(tile_height)])
        ELSE Err(MalformedAttributes(EmbeddedAttrsMsg))

\* The get_attrs! call of parse_external_tileset: firstgid is not read.
ExternalAttrs(attrs) ==
    LET spacing     == AttrU32(attrs, "spacing")
        margin      == AttrU32(attrs, "margin")
        columns     == AttrU32(attrs, "columns")
        name        == AttrString(attrs, "name")
        tilecount   == AttrU32(attrs, "tilecount")
        tile_width  == AttrU32(attrs, "tilewidth")
        tile_height == AttrU32(attrs, "tileheight")
    IN  IF IsSome(tilecount) /\ IsSome(tile_width) /\ IsSome(tile_height)
        THEN Ok([spacing |-> spacing, margin |-> margin, columns |-> columns,
                 name |-> name, tilecount |-> Unwrap(tilecount),
                 tile_width |-> Unwrap(tile_width),
                 tile_height |-> Unwrap(tile_height)])
        ELSE Err(MalformedAttributes(ExternalAttrsMsg))

\* The TilesetProperties record both entry points hand to finish_parsing_xml.
TilesetProperties(a, root_path) ==
    [spacing |-> a.spacing, margin |-> a.margin, name |-> UnwrapOr(a.name, <<>>),
     root_path |-> root_path, columns |-> a.columns, tilecount |-> a.tilecount,
     tile_height |-> a.tile_height, tile_width |-> a.tile_width]

\* parse_xml_embedded up to its call of finish_parsing_xml: the attributes,
\* then the root path.
ParseXmlEmbeddedHead(attrs, path) ==
    LET a == EmbeddedAttrs(attrs)
    IN  IF ~IsOk(a) THEN a
        ELSE IF IsNone(Parent(path)) THEN Err(PathIsNotFile)
        ELSE Ok([prop |-> TilesetProperties(a.val, Unwrap(Parent(path))),
                 first_gid |-> Some(a.val.first_gid)])

\* parse_external_tileset up to its call of finish_parsing_xml.
ParseExternalTilesetHead(attrs, path) ==
    LET a == ExternalAttrs(attrs)
    IN  IF ~IsOk(a) THEN a
        ELSE IF IsNone(Parent(path)) THEN Err(PathIsNotFile)
        ELSE Ok([prop |-> TilesetProperties(a.val, Unwrap(Parent(path))),
                 first_gid |-> None])

\* parse_xml_reference resolving the source against the map path itself
\* instead of its parent directory.
ParseXmlReference_JoinsMapPath(attrs, map_path) ==
    LET first_gid == AttrU32(attrs, "firstgid")
        source    == AttrString(attrs, "source")
    IN  IF ~(IsSome(first_gid) /\ IsSome(source))
        THEN Err(MalformedAttributes(ReferenceAttrsMsg))
        ELSE IF IsNone(Parent(map_path)) THEN Err(PathIsNotFile)
        ELSE Ok([first_gid |-> Unwrap(first_gid),
                 result_type |-> "ExternalReference",
                 tileset_path |-> Join(map_path, PathFromString(Unwrap(source)))])

\* parse_xml_reference
ParseXmlReference(attrs, map_path) ==
    LET first_gid == AttrU32(attrs, "firstgid")
        source    == AttrString(attrs, "source")
    IN  IF ~(IsSome(first_gid) /\ IsSome(source))
        THEN Err(MalformedAttributes(ReferenceAttrsMsg))
        ELSE IF IsNone(Parent(map_path)) THEN Err(PathIsNotFile)
        ELSE Ok([first_gid |-> Unwrap(first_gid),
                 result_type |-> "ExternalReference",
                 tileset_path |-> Join(Unwrap(Parent(map_path)),
                                       PathFromString(Unwrap(source)))])

\* The closure parse_xml_embedded maps over the result of finish_parsing_xml.
MapEmbedded(first_gid, r) ==
    IF IsOk(r)
    THEN Ok([first_gid |-> first_gid, result_type |-> "Embedded", tileset |-> r.val])
    ELSE r

\* The or_else retrying as a reference after an error of any kind.
OrElseReference_AnyError(embedded_result, attrs, path) ==
    IF IsErr(embedded_result)
    THEN [ran |-> TRUE, result |-> ParseXmlReference(attrs, path)]
    ELSE [ran |-> FALSE, result |-> embedded_result]

\* The or_else of parse_xml_in_map: what it returns for the outcome of the
\* embedded attempt, and whether it ran parse_xml_reference.
OrElseReference(embedded_result, attrs, path) ==
    IF IsErr(embedded_result) /\ IsMalformedAttributes(embedded_result.err)
    THEN [ran |-> TRUE, result |-> ParseXmlReference(attrs, path)]
    ELSE [ran |-> FALSE, result |-> embedded_result]

\* --------------------------------------------------------- tile registry

EmptyTiles == [id \in {} |-> "none"]

\* The process aborts (no unwinding, nothing is returned).
Abort(m) == [ok |-> FALSE, abort |-> m]

IsAbort(r) == (~r.ok) /\ ("abort" \in DOMAIN r)

\* HashMap::with_capacity: the empty map; a capacity above 0 allocates, and
\* an allocation the machine cannot serve aborts the process.
WithCapacity(capacity) ==
    {Ok(EmptyTiles)} \cup
        (IF capacity > 0 THEN {Abort("memory allocation failed")} ELSE {})

DefaultTileData == "default"

\* An insertion that keeps the entry already present.
Insert_KeepsFirst(tiles, id, tile) ==
    [k \in DOMAIN tiles \cup {id} |-> IF k \in DOMAIN tiles THEN tiles[k] ELSE tile]

\* HashMap::insert
Insert(tiles, id, tile) ==
    [k \in DOMAIN tiles \cup {id} |-> IF k = id THEN tile ELSE tiles[k]]

\* HashMap::entry(id).or_default()
EntryOrDefault(tiles, id) ==
    IF id \in DOMAIN tiles THEN tiles ELSE Insert(tiles, id, DefaultTileData)

\* for tile_id in 0..tilecount { tiles.entry(tile_id).or_default(); }
RECURSIVE FillDefaults(_, _, _)
FillDefaults(tiles, tile_id, tilecount) ==
    IF tile_id >= tilecount THEN tiles
    ELSE FillDefaults(EntryOrDefault(tiles, tile_id), tile_id + 1, tilecount)

\* ---------------------------------------------------------------- columns

\* calculate_columns answering 0 for a tileset without an image.
CalculateColumns_ZeroWithoutImage(image, tile_width, margin, spacing, overflow_checks) ==
    IF IsNone(image) THEN Ok(0)
    ELSE LET num == U32Add(U32Sub(ToU32(Unwrap(image).width), ToU32(margin)).val,
                           ToU32(spacing)).val
             den == U32Add(ToU32(tile_width), ToU32(spacing)).val
         IN  IF den = <<0, 0>> THEN Panic("attempt to divide by zero")
             ELSE Ok(FromU32(U32Div(num, den)))

\* calculate_columns.  The arithmetic is u32; an overflow panics in a build
\* with overflow checks and wraps in one without, a division by zero panics
\* in both.
CalculateColumns(image, tile_width, margin, spacing, overflow_checks) ==
    IF IsNone(image) THEN Err(MalformedAttributes(NoColumnsMsg))
    ELSE LET width == ToU32(Unwrap(image).width)
             diff  == U32Sub(width, ToU32(margin))
             num   == U32Add(diff.val, ToU32(spacing))
             den   == U32Add(ToU32(tile_width), ToU32(spacing))
         IN  IF overflow_checks /\ diff.overflow
             THEN Panic("attempt to subtract with overflow")
             ELSE IF overflow_checks /\ (num.overflow \/ den.overflow)
             THEN Panic("attempt to add with overflow")
             ELSE IF den.val = <<0, 0>>
             THEN Panic("attempt to divide by zero")
             ELSE Ok(FromU32(U32Div(num.val, den.val)))

\* Default filling over the inclusive range 0..=tilecount.
PostFill_Inclusive(image, tiles, tilecount) ==
    IF IsSome(image) THEN FillDefaults(tiles, 0, tilecount + 1) ELSE tiles

\* Default filling whether or not the tileset has an image.
PostFill_Always(image, tiles, tilecount) == FillDefaults(tiles, 0, tilecount)

\* The registry after the default filling of finish_parsing_xml: only a
\* tileset with an image is filled.
PostFill(image, tiles, tilecount) ==
    LET is_image_collection_tileset == IsNone(image)
    IN  IF ~is_image_collection_tileset
        THEN FillDefaults(tiles, 0, tilecount)
        ELSE tiles

\* finish_parsing_xml after the child loop: default filling, the defaults
\* of margin and spacing, columns, and the Tileset value.
FinishParsingXmlTail(prop, image, tiles, properties, overflow_checks) ==
    LET filled  == PostFill(image, tiles, prop.tilecount)
        margin  == UnwrapOr(prop.margin, 0)
        spacing == UnwrapOr(prop.spacing, 0)
        columns == IF IsSome(prop.columns) THEN Ok(Unwrap(prop.columns))
                   ELSE CalculateColumns(image, prop.tile_width, margin, spacing,
                                         overflow_checks)
    IN  IF ~IsOk(columns) THEN columns
        ELSE Ok([name |-> prop.name, tile_width |-> prop.tile_width,
                 tile_height |-> prop.tile_height, spacing |-> spacing,
                 margin |-> margin, columns |-> columns.val,
                 tilecount |-> prop.tilecount, image |-> image,
                 tiles |-> filled, properties |-> properties])

\* ---------------------------------------------------------------- queries

\* get_tile looking only at the ids below tilecount.
GetTile_BelowTilecount(tileset, id) ==
    IF id \in DOMAIN tileset.tiles /\ id < tileset.tilecount
    THEN Some(tileset.tiles[id]) ELSE None

\* Tileset::get_tile
GetTile(tileset, id) ==
    IF id \in DOMAIN tileset.tiles THEN Some(tileset.tiles[id]) ELSE None

\* The orders in which a HashMap iterator may visit the keys in S.
IterationOrders(S) ==
    {f \in [1..Cardinality(S) -> S] : \A i, j \in 1..Cardinality(S) : f[i] = f[j] => i = j}

\* Tileset::tiles: the sequences the iterator may yield.
Tiles(tileset) ==
    {[i \in 1..Cardinality(DOMAIN tileset.tiles) |-> <<f[i], tileset.tiles[f[i]]>>] :
        f \in IterationOrders(DOMAIN tileset.tiles)}

\* ExactSizeIterator::len of Tileset::tiles
TilesLen(tileset) == Cardinality(DOMAIN tileset.tiles)

\* ----------------------------------------------------------------- inputs

MkAttrs(firstgid, tilecount, tilewidth, tileheight, spacing, margin, columns, name, source) ==
    [firstgid |-> firstgid, tilecount |-> tilecount, tilewidth |-> tilewidth,
     tileheight |-> tileheight, spacing |-> spacing, margin |-> margin,
     columns |-> columns, name |-> name, source |-> source]

\* firstgid: absent, "5", "-1"
FirstGidValues == {None, Some(<<"5">>), Some(<<"-", "1">>)}

\* tilecount: absent, "0", "2", "x"
TileCountValues == {None, Some(<<"0">>), Some(<<"2">>), Some(<<"x">>)}

\* tilewidth: absent, "32", "32px"
TileWidthValues == {None, Some(<<"3", "2">>), Some(<<"3", "2", "p", "x">>)}

\* tileheight: absent, "+16", "1.6"
TileHeightValues == {None, Some(<<"+", "1", "6">>), Some(<<"1", ".", "6">>)}

\* spacing: absent, "2", "x"
SpacingValues == {None, Some(<<"2">>), Some(<<"x">>)}

\* margin: absent, "4", "400"
MarginValues == {None, Some(<<"4">>), Some(<<"4", "0", "0">>)}

\* columns: absent, "3", "" (an empty value does not parse)
ColumnsValues == {None, Some(<<"3">>), Some(<<>>)}

\* name: absent, "t"
NameValues == {None, Some(<<"t">>)}

\* source: absent, "s.t", "/s", "./s"
SourceValues == {None, Some(<<"s", ".", "t">>), Some(<<"/", "s">>),
                 Some(<<".", "/", "s">>)}

\* The optional attributes all absent, all well-formed, all ill-formed.
OptionalBaselines ==
    {<<None, None, None, None>>,
     <<Some(<<"2">>), Some(<<"4">>), Some(<<"3">>), Some(<<"t">>)>>,
     <<Some(<<"x">>), Some(<<"-", "4">>), Some(<<>>), None>>}

\* Attribute lists that vary the required attributes and source.
ValidationAttrs ==
    {MkAttrs(f, tc, tw, th, o[1], o[2], o[3], o[4], s) :
        f \in FirstGidValues, tc \in TileCountValues, tw \in TileWidthValues,
        th \in TileHeightValues, o \in OptionalBaselines, s \in SourceValues}

\* Attribute lists with well-formed required attributes that vary the
\* optional ones and the tile width (32 or 0).
GeometryAttrs ==
    {MkAttrs(Some(<<"5">>), Some(<<"2">>), tw, Some(<<"1", "6">>), sp, m, c, n, None) :
        tw \in {Some(<<"3", "2">>), Some(<<"0">>)}, sp \in SpacingValues,
        m \in MarginValues, c \in ColumnsValues, n \in NameValues}

\* The paths of the containing document: "d/m" and "/" (no parent).
MapPaths == {MkPath(FALSE, <<<<"d">>, <<"m">>>>), MkPath(TRUE, <<>>)}

\* What a failing child parser may return: its error kind, and the child
\* it came from as the message.
ChildErrorKinds == {"MalformedAttributes", "XmlDecodingError"}

ChildErrors(child) == {Err([kind |-> k, msg |-> child]) : k \in ChildErrorKinds}

ImageWidths == {264, 300}

\* Image::new
ImageNew == {Ok([width |-> w]) : w \in ImageWidths} \cup ChildErrors("image")

\* parse_properties
ParseProperties == {Ok({"p"})} \cup ChildErrors("properties")

TileDatas == {"a", "b"}

\* TileData::new
TileDataNew ==
    {Ok(<<id, d>>) : id \in 0..MaxTileId, d \in TileDatas} \cup ChildErrors("tile")

\* ------------------------------------------------------------------ state

VARIABLES
    attrs,          \* the attributes of the <tileset> element
    path,           \* the path of the containing document
    entry,          \* the entry point called: "none", "in_map", "external"
    pc,             \* "start", "children", "done", "panicked", "aborted", "queried"
    prop,           \* the TilesetProperties, once the attributes validated
    first_gid,      \* the parsed firstgid of parse_xml_embedded
    image,          \* finish_parsing_xml: image
    tiles,          \* finish_parsing_xml: tiles
    properties,     \* finish_parsing_xml: properties
    consumed,       \* the number of child elements taken from the parser
    declared,       \* per declared tile id, the data of its latest declaration
    replaced,       \* whether a declaration met an id already declared
    child_error,    \* the error of the child parser that failed, if any
    embedded,       \* the outcome of parse_xml_embedded, once it returned
    reference_ran,  \* whether parse_xml_reference was called
    result,         \* what the entry point returned
    query           \* the query made of the built tileset and its answer

vars == <<attrs, path, entry, pc, prop, first_gid, image, tiles, properties,
          consumed, declared, replaced, child_error, embedded, reference_ran,
          result, query>>

Init ==
    /\ attrs \in ValidationAttrs \cup GeometryAttrs
    /\ path \in MapPaths
    /\ entry = "none"
    /\ pc = "start"
    /\ prop = None
    /\ first_gid = None
    /\ image = None
    /\ tiles = EmptyTiles
    /\ properties = {}
    /\ consumed = 0
    /\ declared = EmptyTiles
    /\ replaced = FALSE
    /\ child_error = None
    /\ embedded = None
    /\ reference_ran = FALSE
    /\ result = None
    /\ query = None

\* ---------------------------------------------------------------- actions

\* What the entry point e does with the outcome r of its body: a panic
\* unwinds, parse_xml_in_map applies its or_else, parse_external_tileset
\* returns r.
Return(e, r) ==
    IF IsPanic(r)
    THEN /\ pc' = "panicked"
         /\ UNCHANGED <<result, embedded, reference_ran>>
    ELSE IF e = "in_map"
    THEN LET o == OrElseReference(r, attrs, path)
         IN  /\ pc' = "done"
             /\ result' = Some(o.result)
             /\ embedded' = Some(r)
             /\ reference_ran' = o.ran
    ELSE /\ pc' = "done"
         /\ result' = Some(r)
         /\ UNCHANGED <<embedded, reference_ran>>

\* The outcome of finish_parsing_xml as the entry point's body returns it.
BodyResult(r) ==
    IF entry = "in_map" THEN MapEmbedded(Unwrap(first_gid), r) ELSE r

\* parse_xml_in_map is called: the attributes validate, finish_parsing_xml
\* allocates the registry and the child loop starts, or the embedded
\* attempt fails at once.
ParseXmlInMap ==
    /\ pc = "start"
    /\ entry' = "in_map"
    /\ LET h == ParseXmlEmbeddedHead(attrs, path)
       IN  IF IsOk(h)
           THEN /\ prop' = Some(h.val.prop)
                /\ first_gid' = h.val.first_gid
                /\ \E t \in WithCapacity(h.val.prop.tilecount) :
                      IF IsAbort(t)
                      THEN pc' = "aborted" /\ UNCHANGED tiles
                      ELSE pc' = "children" /\ tiles' = t.val
                /\ UNCHANGED <<result, embedded, reference_ran>>
           ELSE /\ Return("in_map", h)
                /\ UNCHANGED <<prop, first_gid, tiles>>
    /\ UNCHANGED <<attrs, path, image, properties, consumed, declared,
                   replaced, child_error, query>>

\* parse_external_tileset is called.
ParseExternalTileset ==
    /\ pc = "start"
    /\ entry' = "external"
    /\ LET h == ParseExternalTilesetHead(attrs, path)
       IN  IF IsOk(h)
           THEN /\ prop' = Some(h.val.prop)
                /\ first_gid' = h.val.first_gid
                /\ \E t \in WithCapacity(h.val.prop.tilecount) :
                      IF IsAbort(t)
                      THEN pc' = "aborted" /\ UNCHANGED tiles
                      ELSE pc' = "children" /\ tiles' = t.val
                /\ UNCHANGED <<result, embedded, reference_ran>>
           ELSE /\ Return("external", h)
                /\ UNCHANGED <<prop, first_gid, tiles>>
    /\ UNCHANGED <<attrs, path, image, properties, consumed, declared,
                   replaced, child_error, query>>

\* A child parser returned the error r: the ? operator returns it from
\* finish_parsing_xml.
ChildFails(r) ==
    /\ child_error' = Some(r.err)
    /\ Return(entry, BodyResult(r))

\* The "image" arm of parse_tag!.
ImageChild ==
    /\ pc = "children"
    /\ consumed < MaxChildren
    /\ consumed' = consumed + 1
    /\ \E r \in ImageNew :
          IF IsOk(r)
          THEN /\ image' = Some(r.val)
               /\ UNCHANGED <<pc, result, embedded, reference_ran, child_error>>
          ELSE /\ ChildFails(r)
               /\ UNCHANGED image
    /\ UNCHANGED <<attrs, path, entry, prop, first_gid, tiles, properties,
                   declared, replaced, query>>

\* The "properties" arm of parse_tag!.
PropertiesChild ==
    /\ pc = "children"
    /\ consumed < MaxChildren
    /\ consumed' = consumed + 1
    /\ \E r \in ParseProperties :
          IF IsOk(r)
          THEN /\ properties' = r.val
               /\ UNCHANGED <<pc, result, embedded, reference_ran, child_error>>
          ELSE /\ ChildFails(r)
               /\ UNCHANGED properties
    /\ UNCHANGED <<attrs, path, entry, prop, first_gid, image, tiles,
                   declared, replaced, query>>

\* The "tile" arm of parse_tag!.
TileChild ==
    /\ pc = "children"
    /\ consumed < MaxChildren
    /\ consumed' = consumed + 1
    /\ \E r \in TileDataNew :
          IF IsOk(r)
          THEN /\ tiles' = Insert(tiles, r.val[1], r.val[2])
               /\ declared' = [k \in DOMAIN declared \cup {r.val[1]} |->
                                 IF k = r.val[1] THEN r.val[2] ELSE declared[k]]
               /\ replaced' = (replaced \/ r.val[1] \in DOMAIN declared)
               /\ UNCHANGED <<pc, result, embedded, reference_ran, child_error>>
          ELSE /\ ChildFails(r)
               /\ UNCHANGED <<tiles, declared, replaced>>
    /\ UNCHANGED <<attrs, path, entry, prop, first_gid, image, properties, query>>

\* The closing tag of the tileset ends parse_tag!; finish_parsing_xml fills
\* the defaults, resolves columns and returns.
EndTileset ==
    /\ pc = "children"
    /\ tiles' = PostFill(image, tiles, Unwrap(prop).tilecount)
    /\ \E overflow_checks \in BOOLEAN :
          Return(entry, BodyResult(FinishParsingXmlTail(Unwrap(prop), image, tiles,
                                                        properties, overflow_checks)))
    /\ UNCHANGED <<attrs, path, entry, prop, first_gid, image, properties,
                   consumed, declared, replaced, child_error, query>>

\* The Tileset the entry point returned, if it returned one.
BuiltTileset ==
    IF IsNone(result) \/ ~IsOk(Unwrap(result)) THEN None
    ELSE IF entry = "external" THEN Some(Unwrap(result).val)
    ELSE IF Unwrap(result).val.result_type = "Embedded"
         THEN Some(Unwrap(result).val.tileset)
         ELSE None

\* A caller asks the built tileset for the tile with the given id.
GetTileCall(id) ==
    /\ pc = "done"
    /\ IsSome(BuiltTileset)
    /\ pc' = "queried"
    /\ query' = Some([op |-> "get_tile", id |-> id,
                      tile |-> GetTile(Unwrap(BuiltTileset), id)])
    /\ UNCHANGED <<attrs, path, entry, prop, first_gid, image, tiles, properties,
                   consumed, declared, replaced, child_error, embedded,
                   reference_ran, result>>

\* A caller iterates over the tiles of the built tileset.
TilesCall ==
    /\ pc = "done"
    /\ IsSome(BuiltTileset)
    /\ pc' = "queried"
    /\ \E items \in Tiles(Unwrap(BuiltTileset)) :
          query' = Some([op |-> "tiles", len |-> TilesLen(Unwrap(BuiltTileset)),
                         items |-> items])
    /\ UNCHANGED <<attrs, path, entry, prop, first_gid, image, tiles, properties,
                   consumed, declared, replaced, child_error, embedded,
                   reference_ran, result>>

Next ==
    \/ ParseXmlInMap
    \/ ParseExternalTileset
    \/ ImageChild
    \/ PropertiesChild
    \/ TileChild
    \/ EndTileset
    \/ \E id \in 0..(MaxTileId + 1) : GetTileCall(id)
    \/ TilesCall

Spec == Init /\ [][Next]_vars

\* ----------------------------------------------------------------- claims

Returned == pc \in {"done", "queried"}

Built == Returned /\ IsSome(BuiltTileset)

TS == Unwrap(BuiltTileset)

\* Whether the text s reads as an unsigned integer: digits only, after an
\* optional plus sign.
IsUnsignedText(s) ==
    /\ Len(s) >= 1
    /\ \A i \in 1..Len(s) : IsDigit(s[i]) \/ (i = 1 /\ s[1] = "+" /\ Len(s) > 1)

\* Whether the attribute called name is present and reads as an unsigned integer.
WellFormed(name) == IsSome(attrs[name]) /\ IsUnsignedText(Unwrap(attrs[name]))

EmbeddedRequiredOk ==
    WellFormed("firstgid") /\ WellFormed("tilecount") /\ WellFormed("tilewidth")
        /\ WellFormed("tileheight")

ExternalRequiredOk ==
    WellFormed("tilecount") /\ WellFormed("tilewidth") /\ WellFormed("tileheight")

\* C1, as stated: a tileset built with an <image> child and tilecount = N
\* has exactly N registry entries, with the ids 0..N-1, whatever tiles were
\* declared.
C1_Original ==
    (Built /\ IsSome(image)) =>
        /\ DOMAIN TS.tiles = 0..(TS.tilecount - 1)
        /\ Cardinality(DOMAIN TS.tiles) = TS.tilecount

\* C1, amended: a tileset built with an <image> child and tilecount = N has
\* as registry keys the ids 0..N-1 together with the declared ids; it has
\* exactly N entries, keyed 0..N-1, exactly when every declared id is below N.
C1_Amended ==
    (Built /\ IsSome(image)) =>
        /\ DOMAIN TS.tiles = (0..(TS.tilecount - 1)) \cup DOMAIN declared
        /\ (DOMAIN TS.tiles = 0..(TS.tilecount - 1) /\ Cardinality(DOMAIN TS.tiles) = TS.tilecount)
              <=> (\A id \in DOMAIN declared : id < TS.tilecount)

\* A spritesheet tileset with tilecount 2 whose only declared tile has id 2.
C1_Witness ==
    /\ Built /\ IsSome(image)
    /\ TS.tilecount = 2
    /\ DOMAIN declared = {2}
    /\ DOMAIN TS.tiles = {0, 1, 2}

\* C2: a tileset built with no <image> child has as registry keys exactly
\* the declared ids, whatever tilecount is.
C2_CollectionKeys ==
    (Built /\ IsNone(image)) =>
        /\ DOMAIN TS.tiles = DOMAIN declared
        /\ TS.tiles = declared

\* A collection tileset with tilecount 2 that declares the ids 0 and 2 only.
C2_Witness ==
    /\ Built /\ IsNone(image)
    /\ TS.tilecount = 2
    /\ DOMAIN declared = {0, 2}
    /\ DOMAIN TS.tiles = {0, 2}

\* C3: parse_xml_in_map returns the outcome of the embedded attempt when it
\* succeeds (variant Embedded) or fails with a kind other than
\* MalformedAttributes; it runs parse_xml_reference, and returns its
\* outcome, exactly when the embedded attempt fails with MalformedAttributes.
C3_Dispatch ==
    (Returned /\ entry = "in_map") =>
        LET e == Unwrap(embedded)
            r == Unwrap(result)
        IN  /\ IsOk(e) => (r = e /\ r.val.result_type = "Embedded" /\ ~reference_ran)
            /\ (IsErr(e) /\ e.err.kind # "MalformedAttributes") => (r = e /\ ~reference_ran)
            /\ reference_ran <=> (IsErr(e) /\ e.err.kind = "MalformedAttributes")
            /\ reference_ran =>
                  IF ~(WellFormed("firstgid") /\ IsSome(attrs.source))
                  THEN r = Err(MalformedAttributes(ReferenceAttrsMsg))
                  ELSE IF Len(path.components) = 0
                  THEN r = Err(PathIsNotFile)
                  ELSE IsOk(r) /\ r.val.result_type = "ExternalReference"

\* The embedded attempt fails with PathIsNotFile and that error is returned,
\* although a source attribute is present.
C3_Witness ==
    /\ Returned /\ entry = "in_map"
    /\ IsSome(attrs.source)
    /\ embedded = Some(Err(PathIsNotFile))
    /\ result = Some(Err(PathIsNotFile))
    /\ ~reference_ran

\* C4: in parse_xml_in_map, when the required attributes validate and a
\* child element fails to parse, the caller receives the child's error
\* unchanged, the reference retry does not run and the result is no
\* ExternalReference.
C4_ChildErrorUnchanged ==
    (Returned /\ entry = "in_map" /\ IsSome(child_error)) =>
        /\ result = Some(Err(Unwrap(child_error)))
        /\ ~reference_ran

\* C5: with a well-formed firstgid = g, a source = s and at least one of
\* tilecount, tilewidth, tileheight absent, parse_xml_in_map returns
\* ExternalReference with first_gid = g and tileset_path = the parent of the
\* map path joined with s, or PathIsNotFile when the map path has no parent.
C5_Reference ==
    (/\ Returned /\ entry = "in_map"
     /\ attrs.firstgid = Some(<<"5">>)
     /\ IsSome(attrs.source)
     /\ (IsNone(attrs.tilecount) \/ IsNone(attrs.tilewidth) \/ IsNone(attrs.tileheight)))
    => IF Len(path.components) = 0
       THEN result = Some(Err(PathIsNotFile))
       ELSE LET s   == Unwrap(attrs.source)
                dir == SubSeq(path.components, 1, Len(path.components) - 1)
            IN  result = Some(Ok([first_gid |-> 5, result_type |-> "ExternalReference",
                    tileset_path |->
                        IF s = <<"/", "s">> THEN MkPath(TRUE, <<<<"s">>>>)
                        ELSE IF s = <<".", "/", "s">>
                        THEN MkPath(path.absolute, dir \o <<<<"s">>>>)
                        ELSE MkPath(path.absolute, dir \o <<s>>)]))

\* firstgid "5" and source "s.t" in the map d/m resolve to d/s.t.
C5_Witness ==
    /\ Returned /\ entry = "in_map"
    /\ IsNone(attrs.tilecount)
    /\ result = Some(Ok([first_gid |-> 5, result_type |-> "ExternalReference",
                         tileset_path |-> MkPath(FALSE, <<<<"d">>, <<"s", ".", "t">>>>)]))

\* Integer division truncating toward zero, for b > 0.
TruncDiv(a, b) == IF a >= 0 THEN a \div b ELSE -((-a) \div b)

\* C6: the columns of a built tileset are the explicit columns attribute
\* when one is given, and otherwise, with an image, the truncated quotient
\* (image_width - margin + spacing) / (tile_width + spacing), for all u32
\* inputs.
C6_Columns ==
    Built =>
        /\ IsSome(Unwrap(prop).columns) => TS.columns = Unwrap(Unwrap(prop).columns)
        /\ (IsNone(Unwrap(prop).columns) /\ IsSome(image)) =>
              TS.columns = TruncDiv(Unwrap(image).width - TS.margin + TS.spacing,
                                    TS.tile_width + TS.spacing)

\* C7, as stated: with no <image> child and no parseable columns attribute,
\* parse_external_tileset fails with MalformedAttributes, and so does
\* parse_xml_in_map given well-formed embedded attributes and no source.
C7_Original ==
    (/\ Returned /\ IsNone(image) /\ IsNone(AttrU32(attrs, "columns"))
     /\ \/ entry = "external"
        \/ (entry = "in_map" /\ EmbeddedRequiredOk /\ IsNone(attrs.source)))
    => /\ IsNone(BuiltTileset)
       /\ IsErr(Unwrap(result))
       /\ Unwrap(result).err.kind = "MalformedAttributes"

\* C7, amended: such a tileset is never built; the error is PathIsNotFile
\* when the required attributes validate and the document path has no
\* parent directory, the error of a child that failed with a kind other
\* than MalformedAttributes, and MalformedAttributes otherwise.
C7_Amended ==
    (/\ Returned /\ IsNone(image) /\ IsNone(AttrU32(attrs, "columns"))
     /\ \/ entry = "external"
        \/ (entry = "in_map" /\ EmbeddedRequiredOk /\ IsNone(attrs.source)))
    => /\ IsNone(BuiltTileset)
       /\ IsErr(Unwrap(result))
       /\ Unwrap(result).err =
             IF (entry = "in_map" \/ ExternalRequiredOk) /\ Len(path.components) = 0
             THEN PathIsNotFile
             ELSE IF IsSome(child_error) /\ Unwrap(child_error).kind # "MalformedAttributes"
             THEN Unwrap(child_error)
             ELSE IF entry = "in_map"
             THEN MalformedAttributes(ReferenceAttrsMsg)
             ELSE IF ~ExternalRequiredOk
             THEN MalformedAttributes(ExternalAttrsMsg)
             ELSE IF IsSome(child_error)
             THEN Unwrap(child_error)
             ELSE MalformedAttributes(NoColumnsMsg)

\* An external tileset whose body declares tiles and no image, parsed to
\* its end, fails for want of columns.
C7_Witness ==
    /\ Returned /\ entry = "external"
    /\ IsNone(image) /\ IsNone(child_error)
    /\ DOMAIN declared = {0, 1}
    /\ IsNone(AttrU32(attrs, "columns"))
    /\ result = Some(Err(MalformedAttributes(NoColumnsMsg)))

\* C8: a required attribute that is missing or no unsigned integer fails
\* the entry point with MalformedAttributes before any child is consumed;
\* an optional attribute that is absent or ill-formed never does, and reads
\* as unspecified: spacing and margin 0, name empty, columns derived.
C8_Validation ==
    /\ (entry = "in_map" /\ ~EmbeddedRequiredOk) =>
          /\ embedded = Some(Err(MalformedAttributes(EmbeddedAttrsMsg)))
          /\ consumed = 0 /\ IsNone(prop) /\ IsNone(BuiltTileset)
    /\ (entry = "external" /\ ~ExternalRequiredOk) =>
          /\ result = Some(Err(MalformedAttributes(ExternalAttrsMsg)))
          /\ consumed = 0 /\ IsNone(prop)
    /\ (/\ \/ (entry = "in_map" /\ EmbeddedRequiredOk)
           \/ (entry = "external" /\ ExternalRequiredOk)
        /\ Len(path.components) > 0) =>
          /\ IsSome(prop)
          /\ Unwrap(prop).spacing = (IF attrs.spacing = Some(<<"2">>) THEN Some(2) ELSE None)
          /\ Unwrap(prop).columns = (IF attrs.columns = Some(<<"3">>) THEN Some(3) ELSE None)
    /\ Built =>
          /\ TS.spacing = (IF attrs.spacing = Some(<<"2">>) THEN 2 ELSE 0)
          /\ TS.margin = (IF attrs.margin = Some(<<"4">>) THEN 4
                          ELSE IF attrs.margin = Some(<<"4", "0", "0">>) THEN 400 ELSE 0)
          /\ TS.name = (IF attrs.name = Some(<<"t">>) THEN <<"t">> ELSE <<>>)
          /\ IF attrs.columns = Some(<<"3">>) THEN TS.columns = 3 ELSE IsSome(image)

\* A tileset built although spacing, margin and columns are ill-formed
\* and name is absent.
C8_Witness ==
    /\ Built
    /\ attrs.spacing = Some(<<"x">>) /\ attrs.margin = Some(<<"-", "4">>)
    /\ attrs.columns = Some(<<>>) /\ IsNone(attrs.name)
    /\ TS.spacing = 0 /\ TS.margin = 0 /\ TS.name = <<>>

\* C9: get_tile(id) is present exactly for the ids of the registry; tiles()
\* yields each registered id once and no other, and its length is the size
\* of the registry and the number of yielded ids get_tile finds.
C9_Queries ==
    (pc = "queried") =>
        LET q == Unwrap(query)
        IN  /\ q.op = "get_tile" => (IsSome(q.tile) <=> q.id \in DOMAIN tiles)
            /\ q.op = "tiles" =>
                  /\ \A i, j \in 1..Len(q.items) : q.items[i][1] = q.items[j][1] => i = j
                  /\ {q.items[i][1] : i \in 1..Len(q.items)} = DOMAIN tiles
                  /\ q.len = Cardinality(DOMAIN tiles)
                  /\ q.len = Len(q.items)
                  /\ q.len = Cardinality({i \in 1..Len(q.items) :
                                             IsSome(GetTile(TS, q.items[i][1]))})

\* get_tile finds a declared tile whose id is not below tilecount.
C9_Witness ==
    /\ pc = "queried"
    /\ Unwrap(query).op = "get_tile"
    /\ Unwrap(query).id >= TS.tilecount
    /\ IsSome(Unwrap(query).tile)

\* C10: the registry entry of each declared id is the data of the last
\* declaration of that id, and default filling replaces no declared entry.
C10_LastWins ==
    /\ (pc = "children") => tiles = declared
    /\ Built => \A id \in DOMAIN declared : TS.tiles[id] = declared[id]

\* A spritesheet tileset in which a declaration replaced an earlier one of
\* an id below tilecount.
C10_Witness ==
    /\ Built /\ IsSome(image) /\ replaced
    /\ \E id \in DOMAIN declared : id < TS.tilecount

====
